---- MODULE Spec2Model ----
(***************************************************************************)
(* A model of egui_glow_internal (src/src/lib.rs) and of its example       *)
(* client simple_gui (src/examples/simple_gui/src/lib.rs).                 *)
(*                                                                         *)
(* The library keeps one process-wide session, STATE, and exposes init,    *)
(* paint, destroy, is_init, on_event and get_screen_size.  The example     *)
(* detours wglSwapBuffers (the Frame Hook), replaces the window procedure  *)
(* (h_wndproc) and coordinates both from extension_main (Bootstrap).       *)
(*                                                                         *)
(* Platform calls (wgl*, GetClientRect, GetAsyncKeyState, the clipboard,   *)
(* the painter constructor, the UI frame) are the environment: each call   *)
(* site draws its outcome from a small set.  Floating point values are     *)
(* kept as exact fractions <<numerator, denominator>>.                     *)
(***************************************************************************)
EXTENDS Integers, Sequences, FiniteSets, TLC

VARIABLES
    State,        \* static mut STATE: Option<EguiState>
    curCtx,       \* the host thread's current GL context (wglGetCurrentContext)
    liveCtx,      \* contexts made by wglCreateContext and not yet deleted
    nCtx,         \* number of contexts wglCreateContext has handed out
    alive,        \* FALSE once the process has ended after a panic
    last,         \* the last library call: operation, arguments, result
    pushed,       \* history: every event pushed by on_event, in order
    delivered,    \* history: every event handed to a UI frame, in order
    bpc,          \* extension_main: position of the Bootstrap thread
    chan,         \* the mpsc channel (sx, rx): handles sent, not yet received
    hwndProc,     \* the window procedure installed on each host window
    O_WNDPROC,    \* static mut O_WNDPROC: Option<i32>
    hook,         \* the last intercepted wglSwapBuffers call, and counts over all
    wnd           \* the last message delivered to h_wndproc, and the
                  \* O_WNDPROC value that call read

vars == <<State, curCtx, liveCtx, nCtx, alive, last, pushed, delivered,
          bpc, chan, hwndProc, O_WNDPROC, hook, wnd>>

libVars == <<State, curCtx, liveCtx, nCtx>>
histVars == <<pushed, delivered>>
guiVars == <<bpc, chan, hwndProc, O_WNDPROC, hook, wnd>>

(***************************************************************************)
(* Bounds of the model.                                                    *)
(***************************************************************************)
MaxCtx == 1        \* contexts wglCreateContext can hand out
MaxPushed == 1     \* on_event calls recorded in the history (Spec)
MaxQueue == 1      \* pending events before an on_event call (SpecPtr, SpecKey, SpecWheel)
MaxCalls == 3      \* intercepted presentation calls (SpecGui)
MaxMsgs == 2       \* messages delivered to the window (SpecGui)

(***************************************************************************)
(* Option<T>: None, Some(x).                                               *)
(***************************************************************************)
None == <<>>
Some(x) == <<x>>
IsSome(o) == o # <<>>
Unwrap(o) == o[1]

(***************************************************************************)
(* Platform constants used by the library.                                 *)
(***************************************************************************)
WM_KEYDOWN == 256
WM_KEYUP == 257
WM_CHAR == 258
WM_SYSKEYDOWN == 260
WM_SYSKEYUP == 261
WM_MOUSEMOVE == 512
WM_LBUTTONDOWN == 513
WM_LBUTTONUP == 514
WM_LBUTTONDBLCLK == 515
WM_RBUTTONDOWN == 516
WM_RBUTTONUP == 517
WM_RBUTTONDBLCLK == 518
WM_MBUTTONDOWN == 519
WM_MBUTTONUP == 520
WM_MBUTTONDBLCLK == 521
WM_MOUSEWHEEL == 522
WM_XBUTTONDOWN == 523
WM_XBUTTONUP == 524
WM_XBUTTONDBLCLK == 525
WM_MOUSEHWHEEL == 526
WM_PAINT == 15         \* a message code on_event has no arm for
MK_SHIFT == 4
MK_CONTROL == 8
XBUTTON1 == 1
XBUTTON2 == 2
WHEEL_DELTA == 120
KF_REPEAT == 16384
NULL == 0              \* HGLRC(0) / HDC(0)

(* egui::Key discriminants that the key branches compare against. *)
Key_C == 44
Key_V == 63
Key_X == 65

(***************************************************************************)
(* Integer casts and bit tests.                                            *)
(***************************************************************************)
Pow16 == 65536

\* x as i16: keep the low 16 bits, read them as two's complement
AsI16(x) == LET m == x % Pow16 IN IF m >= 32768 THEN m - Pow16 ELSE m

\* A usize (wparam) is kept as its two 16-bit words <<high, low>>
Hi(w) == w[1]
Lo(w) == w[2]

\* x & bit # 0, for a single-bit mask
HasBit(x, bit) == (x \div bit) % 2 = 1

\* f32 values as exact fractions in lowest terms, denominator positive
RECURSIVE Gcd(_, _)
Gcd(a, b) == IF b = 0 THEN a ELSE Gcd(b, a % b)
Abs(x) == IF x < 0 THEN -x ELSE x
F32(n, d) ==
    LET g == Gcd(Abs(n), d) IN
    IF n = 0 THEN <<0, 1>> ELSE <<n \div g, d \div g>>

(***************************************************************************)
(* egui::Modifiers                                                         *)
(***************************************************************************)
Modifiers(alt, ctrl, shift) ==
    [alt |-> alt, ctrl |-> ctrl, shift |-> shift, mac_cmd |-> FALSE, command |-> ctrl]

ModifiersDefault == Modifiers(FALSE, FALSE, FALSE)

\* fn get_pos(lparam: isize) -> Pos2
get_pos(lparam) ==
    LET x == AsI16(lparam % Pow16)
        y == AsI16((lparam \div Pow16) % Pow16)
    IN  <<x, y>>

\* fn get_key_modifiers(msg: u32) -> Modifiers; keys is the live key state
\* GetAsyncKeyState reports
get_key_modifiers(msg, keys) ==
    LET ctrl == keys.ctrl
        shift == keys.shift
    IN  [alt |-> msg = WM_SYSKEYDOWN, mac_cmd |-> FALSE, command |-> ctrl,
         shift |-> shift, ctrl |-> ctrl]

\* fn get_mouse_modifiers(wparam: usize) -> Modifiers
get_mouse_modifiers(wparam) ==
    [alt |-> FALSE,
     ctrl |-> HasBit(Lo(wparam), MK_CONTROL),
     shift |-> HasBit(Lo(wparam), MK_SHIFT),
     mac_cmd |-> FALSE,
     command |-> HasBit(Lo(wparam), MK_CONTROL)]

\* alter_modifiers that never writes
alter_modifiers_keep(state, new) == state

\* fn alter_modifiers(state: &mut EguiState, new: Modifiers)
alter_modifiers(state, new) ==
    IF IsSome(state.modifiers)
    THEN [state EXCEPT !.modifiers = Some(new)]
    ELSE state

\* The named virtual keys of get_key's inner match: VK_* code -> egui::Key
VkNamed ==
    (40 :> 0) @@ (37 :> 1) @@ (39 :> 2) @@ (38 :> 3)      \* VK_DOWN LEFT RIGHT UP
    @@ (27 :> 4) @@ (9 :> 5) @@ (8 :> 6) @@ (13 :> 7)     \* ESCAPE TAB BACK RETURN
    @@ (32 :> 8) @@ (45 :> 9) @@ (46 :> 10)               \* SPACE INSERT DELETE
    @@ (36 :> 11) @@ (35 :> 12) @@ (33 :> 13) @@ (34 :> 14) \* HOME END PRIOR NEXT
    @@ (109 :> 27)                                        \* VK_SUBTRACT -> Minus

\* get_key with the digit range open below: ..=0x39 instead of 0x30..=0x39
get_key_open_range(wparam) ==
    LET in(a, b) == Hi(wparam) = 0 /\ Lo(wparam) >= a /\ Lo(wparam) <= b
        u8 == Lo(wparam) % 256
    IN  IF in(0, 57) THEN Some(u8 - 16)
        ELSE IF in(65, 90) THEN Some(u8 - 23)
        ELSE IF in(96, 105) THEN Some(u8 - 64)
        ELSE IF in(112, 131) THEN Some(u8 - 44)
        ELSE LET vk == Lo(wparam) IN
             IF vk \in DOMAIN VkNamed THEN Some(VkNamed[vk]) ELSE None

\* fn get_key(wparam: usize) -> Option<Key>
get_key(wparam) ==
    LET in(a, b) == Hi(wparam) = 0 /\ Lo(wparam) >= a /\ Lo(wparam) <= b
        u8 == Lo(wparam) % 256
    IN  IF in(48, 57) THEN Some(u8 - 16)            \* 0x30..=0x39, - 0x10
        ELSE IF in(65, 90) THEN Some(u8 - 23)       \* 0x41..=0x5A, - 0x17
        ELSE IF in(96, 105) THEN Some(u8 - 64)      \* 0x60..=0x69, - 0x40
        ELSE IF in(112, 131) THEN Some(u8 - 44)     \* 0x70..=0x83, - 0x2C
        ELSE LET vk == Lo(wparam) IN                \* wparam as u16
             IF vk \in DOMAIN VkNamed THEN Some(VkNamed[vk]) ELSE None

(***************************************************************************)
(* egui::Event values.                                                     *)
(***************************************************************************)
EvPointerMoved(pos) == [type |-> "PointerMoved", pos |-> pos]
EvPointerButton(pos, button, pressed, modifiers) ==
    [type |-> "PointerButton", pos |-> pos, button |-> button,
     pressed |-> pressed, modifiers |-> modifiers]
EvText(text) == [type |-> "Text", text |-> text]
EvZoom(factor) == [type |-> "Zoom", factor |-> factor]
EvScroll(x, y) == [type |-> "Scroll", delta |-> <<x, y>>]
EvCopy == [type |-> "Copy"]
EvCut == [type |-> "Cut"]
EvKey(pressed, modifiers, key, repeat) ==
    [type |-> "Key", pressed |-> pressed, modifiers |-> modifiers, key |-> key,
     repeat |-> repeat, physical_key |-> Some(key)]

push(state, ev) == [state EXCEPT !.events = Append(@, ev)]

(***************************************************************************)
(* on_event: the arms of `match umsg`.  Each yields the session after the  *)
(* arm and whether the arm panicked.                                       *)
(***************************************************************************)
Done(state) == [state |-> state, panic |-> FALSE]
Panic(state) == [state |-> state, panic |-> TRUE]

\* the pointer-move arm storing the modifiers whether or not any are tracked
arm_mousemove_stores(state, wparam, lparam) ==
    LET s1 == [state EXCEPT !.modifiers = Some(get_mouse_modifiers(wparam))]
    IN  Done(push(s1, EvPointerMoved(get_pos(lparam))))

\* WM_MOUSEMOVE
arm_mousemove(state, wparam, lparam) ==
    LET s1 == alter_modifiers(state, get_mouse_modifiers(wparam))
    IN  Done(push(s1, EvPointerMoved(get_pos(lparam))))

\* WM_{L,R,M}BUTTON{DOWN,DBLCLK,UP}
arm_button(state, wparam, lparam, button, pressed) ==
    LET modifiers == get_mouse_modifiers(wparam)
        s1 == alter_modifiers(state, modifiers)
    IN  Done(push(s1, EvPointerButton(get_pos(lparam), button, pressed, modifiers)))

\* the button expression of the WM_XBUTTON* arms; None is unreachable!()
xbutton(wparam) ==
    IF HasBit(Hi(wparam), XBUTTON1) THEN Some("Extra1")
    ELSE IF HasBit(Hi(wparam), XBUTTON2) THEN Some("Extra2")
    ELSE None

\* WM_XBUTTON{DOWN,DBLCLK,UP}
arm_xbutton(state, wparam, lparam, pressed) ==
    LET modifiers == get_mouse_modifiers(wparam)
        s1 == alter_modifiers(state, modifiers)
        button == xbutton(wparam)
    IN  IF IsSome(button)
        THEN Done(push(s1, EvPointerButton(get_pos(lparam), Unwrap(button), pressed, modifiers)))
        ELSE Panic(s1)

\* char::from_u32(wparam as _): no surrogate, at most 0x10FFFF
char_from_u32(wparam) ==
    IF Hi(wparam) > 16 THEN None
    ELSE IF Hi(wparam) = 0 /\ Lo(wparam) >= 55296 /\ Lo(wparam) <= 57343 THEN None
    ELSE Some(Hi(wparam) * Pow16 + Lo(wparam))

\* char::is_control: general category Cc
is_control(ch) == ch <= 31 \/ (ch >= 127 /\ ch <= 159)

\* WM_CHAR
arm_char(state, wparam) ==
    LET ch == char_from_u32(wparam) IN
    IF IsSome(ch) /\ ~is_control(Unwrap(ch))
    THEN Done(push(state, EvText(<<Unwrap(ch)>>)))
    ELSE Done(state)

\* the wheel arm without the `as i16` cast: the rotation is read unsigned
arm_wheel_unsigned(state, wparam, vertical) ==
    LET s1 == alter_modifiers(state, get_mouse_modifiers(wparam))
        v == Hi(wparam)
        delta == F32(v * 10, WHEEL_DELTA)
        zero == F32(0, 1)
    IN  IF HasBit(Lo(wparam), MK_CONTROL)
        THEN Done(push(s1, EvZoom(IF delta[1] > 0 THEN F32(3, 2) ELSE F32(1, 2))))
        ELSE IF vertical
        THEN Done(push(s1, EvScroll(zero, delta)))
        ELSE Done(push(s1, EvScroll(delta, zero)))

\* WM_MOUSEWHEEL (vertical) and WM_MOUSEHWHEEL
arm_wheel(state, wparam, vertical) ==
    LET s1 == alter_modifiers(state, get_mouse_modifiers(wparam))
        v == AsI16(Hi(wparam))
        delta == F32(v * 10, WHEEL_DELTA)
        zero == F32(0, 1)
    IN  IF HasBit(Lo(wparam), MK_CONTROL)
        THEN Done(push(s1, EvZoom(IF delta[1] > 0 THEN F32(3, 2) ELSE F32(1, 2))))
        ELSE IF vertical
        THEN Done(push(s1, EvScroll(zero, delta)))
        ELSE Done(push(s1, EvScroll(delta, zero)))

\* the key-down arm with the key event pushed before the shortcut events
arm_keydown_key_first(state, msg, wparam, lparam, env) ==
    LET modifiers == get_key_modifiers(msg, env.keys)
        s0 == [state EXCEPT !.modifiers = Some(modifiers)]
        k == get_key(wparam)
    IN  IF IsSome(k)
        THEN LET key == Unwrap(k)
                 s1 == push(s0, EvKey(TRUE, modifiers, key, HasBit(lparam, KF_REPEAT)))
                 s2 == IF key = Key_V /\ modifiers.ctrl /\ IsSome(env.clipboard)
                       THEN push(s1, EvText(Unwrap(env.clipboard))) ELSE s1
                 s3 == IF key = Key_C /\ modifiers.ctrl THEN push(s2, EvCopy) ELSE s2
             IN  Done(IF key = Key_X /\ modifiers.ctrl THEN push(s3, EvCut) ELSE s3)
        ELSE Done(s0)

\* WM_KEYDOWN | WM_SYSKEYDOWN; env is the key state and the clipboard
arm_keydown(state, msg, wparam, lparam, env) ==
    LET modifiers == get_key_modifiers(msg, env.keys)
        s0 == [state EXCEPT !.modifiers = Some(modifiers)]
        k == get_key(wparam)
    IN  IF IsSome(k)
        THEN LET key == Unwrap(k)
                 s1 == IF key = Key_V /\ modifiers.ctrl /\ IsSome(env.clipboard)
                       THEN push(s0, EvText(Unwrap(env.clipboard))) ELSE s0
                 s2 == IF key = Key_C /\ modifiers.ctrl THEN push(s1, EvCopy) ELSE s1
                 s3 == IF key = Key_X /\ modifiers.ctrl THEN push(s2, EvCut) ELSE s2
             IN  Done(push(s3, EvKey(TRUE, modifiers, key, HasBit(lparam, KF_REPEAT))))
        ELSE Done(s0)

\* WM_KEYUP | WM_SYSKEYUP
arm_keyup(state, msg, wparam, lparam, env) ==
    LET modifiers == get_key_modifiers(msg, env.keys)
        s0 == [state EXCEPT !.modifiers = Some(modifiers)]
        k == get_key(wparam)
    IN  IF IsSome(k)
        THEN Done(push(s0, EvKey(FALSE, modifiers, Unwrap(k), HasBit(lparam, KF_REPEAT))))
        ELSE Done(s0)

\* match umsg { ... }
on_event_match(state, umsg, wparam, lparam, env) ==
    CASE umsg = WM_MOUSEMOVE -> arm_mousemove(state, wparam, lparam)
      [] umsg \in {WM_LBUTTONDOWN, WM_LBUTTONDBLCLK} ->
            arm_button(state, wparam, lparam, "Primary", TRUE)
      [] umsg = WM_LBUTTONUP -> arm_button(state, wparam, lparam, "Primary", FALSE)
      [] umsg \in {WM_RBUTTONDOWN, WM_RBUTTONDBLCLK} ->
            arm_button(state, wparam, lparam, "Secondary", TRUE)
      [] umsg = WM_RBUTTONUP -> arm_button(state, wparam, lparam, "Secondary", FALSE)
      [] umsg \in {WM_MBUTTONDOWN, WM_MBUTTONDBLCLK} ->
            arm_button(state, wparam, lparam, "Middle", TRUE)
      [] umsg = WM_MBUTTONUP -> arm_button(state, wparam, lparam, "Middle", FALSE)
      [] umsg \in {WM_XBUTTONDOWN, WM_XBUTTONDBLCLK} ->
            arm_xbutton(state, wparam, lparam, TRUE)
      [] umsg = WM_XBUTTONUP -> arm_xbutton(state, wparam, lparam, FALSE)
      [] umsg = WM_CHAR -> arm_char(state, wparam)
      [] umsg = WM_MOUSEWHEEL -> arm_wheel(state, wparam, TRUE)
      [] umsg = WM_MOUSEHWHEEL -> arm_wheel(state, wparam, FALSE)
      [] umsg \in {WM_KEYDOWN, WM_SYSKEYDOWN} -> arm_keydown(state, umsg, wparam, lparam, env)
      [] umsg \in {WM_KEYUP, WM_SYSKEYUP} -> arm_keyup(state, umsg, wparam, lparam, env)
      [] OTHER -> Done(state)

\* the value on_event returns: should the host skip its own window procedure
on_event_consumed(state, umsg) ==
    \/ /\ state.egui_ctx.wants_pointer_input
       /\ umsg \in {WM_MOUSEMOVE, WM_LBUTTONDOWN, WM_LBUTTONDBLCLK, WM_LBUTTONUP,
                    WM_RBUTTONDOWN, WM_RBUTTONDBLCLK, WM_RBUTTONUP,
                    WM_MBUTTONDOWN, WM_MBUTTONDBLCLK, WM_MBUTTONUP,
                    WM_MOUSEWHEEL, WM_MOUSEHWHEEL}
    \/ /\ state.egui_ctx.wants_keyboard_input
       /\ umsg \in {WM_CHAR, WM_KEYDOWN, WM_SYSKEYDOWN, WM_KEYUP, WM_SYSKEYUP}

\* is_init with the test lost: the session always looks uninitialized
is_init_never(w) == FALSE

\* pub fn is_init() -> bool
is_init(w) == IsSome(w.State)

\* pub fn on_event(umsg: u32, wparam: usize, lparam: isize) -> Result<bool, Error>
on_event(w, umsg, wparam, lparam, env) ==
    IF ~IsSome(w.State)
    THEN [w |-> w, res |-> "NotInit", consumed |-> FALSE]
    ELSE LET r == on_event_match(Unwrap(w.State), umsg, wparam, lparam, env)
             w1 == [w EXCEPT !.State = Some(r.state)]
         IN  IF r.panic
             THEN [w |-> w1, res |-> "panic", consumed |-> FALSE]
             ELSE [w |-> w1, res |-> "Ok", consumed |-> on_event_consumed(r.state, umsg)]

(***************************************************************************)
(* The graphics platform.  A world w holds the session and the platform    *)
(* state the library reads and writes:                                     *)
(*   w.State  the stored session, w.cur  the current context,              *)
(*   w.live   the live created contexts, w.nCtx  how many were created.    *)
(***************************************************************************)
HostCtxs == {11, 12}                 \* contexts the host itself owns
HDCs == {1, 2}                       \* valid target-surface handles
NewCtx(w) == 21 + w.nCtx             \* the handle wglCreateContext returns next
MakeCurrentAnswers == {"ok", "fail_keep", "fail_null"}
Rects == {None, Some(<<800, 600>>)}  \* GetClientRect: failure, or the client size
Wants == [wants_pointer_input : BOOLEAN, wants_keyboard_input : BOOLEAN]

\* wglGetCurrentContext()
wglGetCurrentContext(w) == w.cur

\* wglMakeCurrent(hdc, ctx).  e is the platform's answer.  A deleted context
\* cannot be made current.  On failure the thread keeps its current context
\* ("fail_keep") or is left without one ("fail_null").
wglMakeCurrent(w, hdc, ctx, e) ==
    LET valid == ctx = NULL \/ ctx \in HostCtxs \/ ctx \in w.live
        ok == e = "ok" /\ valid
    IN  [ok |-> ok,
         w |-> [w EXCEPT !.cur = IF ok THEN ctx ELSE IF e = "fail_keep" THEN @ ELSE NULL]]

\* wglDeleteContext(ctx): a current context is made not current first
wglDeleteContext(w, ctx) ==
    [w EXCEPT !.live = @ \ {ctx},
              !.cur = IF @ = ctx /\ ctx \in w.live THEN NULL ELSE @]

\* init that stores the session before the painter is constructed, so that a
\* PainterError leaves it stored
init_stores_early(w, window_handle, env) ==
    IF is_init(w) THEN [w |-> w, res |-> "AlreadyInit"]
    ELSE
    LET original_gl_context == wglGetCurrentContext(w) IN
    IF ~(env.create /\ window_handle # NULL /\ w.nCtx < MaxCtx)
    THEN [w |-> w, res |-> "CtxCreate"]
    ELSE
    LET new_gl_context == NewCtx(w)
        w1 == [w EXCEPT !.live = @ \cup {new_gl_context}, !.nCtx = @ + 1]
        m1 == wglMakeCurrent(w1, window_handle, new_gl_context, env.mc1)
        stored == Some([egui_ctx |-> [wants_pointer_input |-> FALSE,
                                      wants_keyboard_input |-> FALSE],
                        painter |-> [ctx |-> new_gl_context, destroyed |-> FALSE],
                        events |-> <<>>,
                        modifiers |-> None,
                        window_handle |-> window_handle,
                        original_gl_context |-> original_gl_context,
                        new_gl_context |-> new_gl_context])
    IN
    IF ~m1.ok THEN [w |-> m1.w, res |-> "CtxSwitch"]
    ELSE IF ~env.painter
    THEN [w |-> [m1.w EXCEPT !.State = stored], res |-> "PainterError"]
    ELSE
    LET m2 == wglMakeCurrent(m1.w, window_handle, original_gl_context, env.mc2) IN
    IF ~m2.ok THEN [w |-> m2.w, res |-> "CtxSwitch"]
    ELSE [w |-> [m2.w EXCEPT !.State = stored], res |-> "Ok"]

\* pub unsafe fn init(window_handle: HDC) -> Result<(), Error>
init(w, window_handle, env) ==
    IF is_init(w) THEN [w |-> w, res |-> "AlreadyInit"]
    ELSE
    LET original_gl_context == wglGetCurrentContext(w) IN
    IF ~(env.create /\ window_handle # NULL /\ w.nCtx < MaxCtx)
    THEN [w |-> w, res |-> "CtxCreate"]
    ELSE
    LET new_gl_context == NewCtx(w)
        w1 == [w EXCEPT !.live = @ \cup {new_gl_context}, !.nCtx = @ + 1]
        m1 == wglMakeCurrent(w1, window_handle, new_gl_context, env.mc1)
    IN
    IF ~m1.ok THEN [w |-> m1.w, res |-> "CtxSwitch"]
    ELSE IF ~env.painter THEN [w |-> m1.w, res |-> "PainterError"]
    ELSE
    LET m2 == wglMakeCurrent(m1.w, window_handle, original_gl_context, env.mc2) IN
    IF ~m2.ok THEN [w |-> m2.w, res |-> "CtxSwitch"]
    ELSE [w |-> [m2.w EXCEPT !.State = Some(
                    [egui_ctx |-> [wants_pointer_input |-> FALSE,
                                   wants_keyboard_input |-> FALSE],
                     painter |-> [ctx |-> new_gl_context, destroyed |-> FALSE],
                     events |-> <<>>,
                     modifiers |-> None,
                     window_handle |-> window_handle,
                     original_gl_context |-> original_gl_context,
                     new_gl_context |-> new_gl_context])],
          res |-> "Ok"]

\* pub fn get_screen_size() -> Result<(u32, u32), Error>; rect is what
\* GetClientRect answers
get_screen_size(w, rect) ==
    IF ~IsSome(w.State) THEN [res |-> "NotInit", size |-> None]
    ELSE IF ~IsSome(rect) THEN [res |-> "WindowSize", size |-> None]
    ELSE [res |-> "Ok", size |-> rect]

\* fn get_screen_rect() -> Result<Rect, Error>
get_screen_rect(w, rect) ==
    LET size == get_screen_size(w, rect) IN
    IF size.res # "Ok" THEN [res |-> size.res, rect |-> None]
    ELSE [res |-> "Ok", rect |-> Some(<<<<0, 0>>, Unwrap(size.size)>>)]

\* unsafe fn get_raw_input(state: &mut EguiState) -> Result<RawInput, Error>
\* The fields are evaluated in order: the queue is taken before the screen
\* rectangle is asked for.
get_raw_input(w, rect) ==
    LET state == Unwrap(w.State)
        modifiers == IF IsSome(state.modifiers) THEN Unwrap(state.modifiers)
                     ELSE ModifiersDefault
        events == state.events
        w1 == [w EXCEPT !.State = Some([state EXCEPT !.events = <<>>])]
        screen_rect == get_screen_rect(w1, rect)
    IN  IF screen_rect.res # "Ok"
        THEN [w |-> w1, res |-> screen_rect.res, raw_input |-> None]
        ELSE [w |-> w1, res |-> "Ok",
              raw_input |-> Some([modifiers |-> modifiers, events |-> events,
                                  screen_rect |-> screen_rect.rect, focused |-> TRUE])]

\* state.egui_ctx.run(raw_input, run_fn): the frame decides what the UI wants
run(w, raw_input, wants) ==
    [w EXCEPT !.State = Some([Unwrap(@) EXCEPT !.egui_ctx = wants])]

PaintRet(w, res, raw_input, overlay) ==
    [w |-> w, res |-> res, raw_input |-> raw_input, overlay |-> overlay]

\* pub unsafe fn paint(hdc: HDC, run_fn) -> Result<(), Error>
\* The result also tells which raw input the UI frame got, if any, and whether
\* the overlay context was made current.
paint(w, hdc, env) ==
    IF ~IsSome(w.State) THEN PaintRet(w, "NotInit", None, FALSE)
    ELSE
    LET s0 == Unwrap(w.State)
        s1 == IF s0.window_handle # hdc
              THEN [s0 EXCEPT !.original_gl_context = wglGetCurrentContext(w)]
              ELSE s0
        s2 == [s1 EXCEPT !.window_handle = hdc]
        w2 == [w EXCEPT !.State = Some(s2)]
        m1 == wglMakeCurrent(w2, s2.window_handle, s2.new_gl_context, env.mc1)
    IN
    IF ~m1.ok THEN PaintRet(m1.w, "CtxSwitch", None, FALSE)
    ELSE
    LET ri == get_raw_input(m1.w, env.rect1) IN
    IF ri.res # "Ok" THEN PaintRet(ri.w, ri.res, None, TRUE)
    ELSE
    LET w3 == run(ri.w, Unwrap(ri.raw_input), env.wants)
        dimensions == get_screen_size(w3, env.rect2)
    IN
    IF dimensions.res # "Ok" THEN PaintRet(w3, dimensions.res, ri.raw_input, TRUE)
    ELSE
    LET m2 == wglMakeCurrent(w3, s2.window_handle, s2.original_gl_context, env.mc2) IN
    IF ~m2.ok THEN PaintRet(m2.w, "CtxSwitch", ri.raw_input, TRUE)
    ELSE PaintRet(m2.w, "Ok", ri.raw_input, TRUE)

\* destroy that also clears the stored session
destroy_clears(w) ==
    IF ~IsSome(w.State) THEN [w |-> w, res |-> "NotInit", release |-> None]
    ELSE
    LET state == Unwrap(w.State)
        w1 == wglDeleteContext(w, state.new_gl_context)
    IN  [w |-> [w1 EXCEPT !.State = None], res |-> "Ok",
         release |-> Some([cur |-> w1.cur,
                           overlay_live |-> state.new_gl_context \in w1.live])]

\* pub fn destroy() -> Result<(), Error>
\* release is the moment state.painter.destroy() releases the painter's
\* objects (it does so once, while not yet destroyed): the context current
\* then, and whether the overlay context still exists
destroy(w) ==
    IF ~IsSome(w.State) THEN [w |-> w, res |-> "NotInit", release |-> None]
    ELSE
    LET state == Unwrap(w.State)
        w1 == wglDeleteContext(w, state.new_gl_context)
    IN  [w |-> [w1 EXCEPT !.State = Some([state EXCEPT !.painter.destroyed = TRUE])],
         res |-> "Ok",
         release |-> IF state.painter.destroyed THEN None
                     ELSE Some([cur |-> w1.cur,
                                overlay_live |-> state.new_gl_context \in w1.live])]

(***************************************************************************)
(* The state machine.                                                      *)
(***************************************************************************)
World == [State |-> State, cur |-> curCtx, live |-> liveCtx, nCtx |-> nCtx]

SetWorld(w) ==
    /\ State' = w.State
    /\ curCtx' = w.cur
    /\ liveCtx' = w.live
    /\ nCtx' = w.nCtx

NoKeys == [ctrl |-> FALSE, shift |-> FALSE]
NoEnv == [keys |-> NoKeys, clipboard |-> None]

\* the record of a library call: its arguments (for init, the handle) and what
\* it returned; for paint, the raw input the UI frame got and whether the
\* overlay context was made current
NoCall ==
    [op |-> "none", res |-> "none", umsg |-> 0, wparam |-> <<0, 0>>,
     lparam |-> 0, env |-> NoEnv, consumed |-> FALSE, raw_input |-> None,
     overlay |-> FALSE, release |-> None, hdc |-> NULL]

NoHook ==
    [hdc |-> NULL, n |-> 0, status |-> "none", sent |-> <<>>, inits |-> <<>>,
     paints |-> <<>>, orig |-> <<>>, ret |-> 0,
     nValid |-> 0, nSent |-> 0, nInit |-> 0]

NoWnd ==
    [n |-> 0, status |-> "none", msg |-> <<0, 0, <<0, 0>>, 0>>, consumed |-> FALSE,
     orig |-> <<>>, ret |-> 0, oproc |-> None]

Init ==
    /\ State = None
    /\ curCtx = 11
    /\ liveCtx = {}
    /\ nCtx = 0
    /\ alive = TRUE
    /\ last = NoCall
    /\ pushed = <<>>
    /\ delivered = <<>>
    /\ bpc = [at |-> "start", hdc |-> NULL, prev |-> "none"]
    /\ chan = <<>>
    /\ hwndProc = [hwnd \in {101, 102} |-> "host"]
    /\ O_WNDPROC = None
    /\ hook = NoHook
    /\ wnd = NoWnd

\* What the platform answers during one init: wglCreateContext, the first
\* wglMakeCurrent, Painter::new, the second wglMakeCurrent.  An answer that is
\* never asked for (an earlier step failed) is left at its first value.
InitEnvs ==
    { e \in [create : BOOLEAN, mc1 : MakeCurrentAnswers, painter : BOOLEAN,
             mc2 : MakeCurrentAnswers] :
        /\ ~e.create => e.mc1 = "ok"
        /\ (~e.create \/ e.mc1 # "ok") => e.painter
        /\ (~e.create \/ e.mc1 # "ok" \/ ~e.painter) => e.mc2 = "ok" }

\* What the platform and the UI answer during one paint: the first
\* wglMakeCurrent, GetClientRect for the raw input, the UI frame, GetClientRect
\* for the paint call, the second wglMakeCurrent.
PaintEnvs ==
    { e \in [mc1 : MakeCurrentAnswers, rect1 : Rects, wants : Wants, rect2 : Rects,
             mc2 : MakeCurrentAnswers] :
        /\ e.mc1 # "ok" => IsSome(e.rect1)
        /\ (e.mc1 # "ok" \/ ~IsSome(e.rect1)) =>
              ~e.wants.wants_pointer_input /\ ~e.wants.wants_keyboard_input /\ IsSome(e.rect2)
        /\ (e.mc1 # "ok" \/ ~IsSome(e.rect1) \/ ~IsSome(e.rect2)) => e.mc2 = "ok" }
KeyEnvs == [keys : [ctrl : BOOLEAN, shift : BOOLEAN],
            clipboard : {None, Some(<<104, 105>>)}]

Session == Unwrap(State)
Pending == IF IsSome(State) THEN Session.events ELSE <<>>

\* the events a call appended to the queue
Appended(pre, post) ==
    IF IsSome(pre) /\ IsSome(post)
    THEN SubSeq(Unwrap(post).events, Len(Unwrap(pre).events) + 1, Len(Unwrap(post).events))
    ELSE <<>>

\* a client calls init(hdc); envs are the answers the platform may give
CallInit(hdc, envs) ==
    /\ alive
    /\ \E env \in envs :
         LET r == init(World, hdc, env) IN
         /\ SetWorld(r.w)
         /\ last' = [NoCall EXCEPT !.op = "init", !.res = r.res, !.hdc = hdc]
    /\ UNCHANGED <<alive, histVars, guiVars>>

\* a client calls paint(hdc, run_fn); envs are the answers the platform and the
\* UI may give
CallPaint(hdc, envs) ==
    /\ alive
    /\ \E env \in envs :
         LET r == paint(World, hdc, env) IN
         /\ SetWorld(r.w)
         /\ last' = [NoCall EXCEPT !.op = "paint", !.res = r.res, !.raw_input = r.raw_input,
                                   !.overlay = r.overlay]
    /\ UNCHANGED <<alive, guiVars>>

\* a client calls destroy()
CallDestroy ==
    /\ alive
    /\ LET r == destroy(World) IN
         /\ SetWorld(r.w)
         /\ last' = [NoCall EXCEPT !.op = "destroy", !.res = r.res,
                                   !.release = r.release]
    /\ UNCHANGED <<alive, histVars, guiVars>>

\* a client calls get_screen_size()
CallGetScreenSize ==
    /\ alive
    /\ \E rect \in Rects :
         LET r == get_screen_size(World, rect) IN
         last' = [NoCall EXCEPT !.op = "get_screen_size", !.res = r.res]
    /\ UNCHANGED <<libVars, alive, histVars, guiVars>>

\* a client calls on_event(umsg, wparam, lparam)
CallOnEvent(umsg, wparam, lparam, env) ==
    /\ alive
    /\ LET r == on_event(World, umsg, wparam, lparam, env) IN
         /\ SetWorld(r.w)
         /\ alive' = (r.res # "panic")
         /\ last' = [NoCall EXCEPT !.op = "on_event", !.res = r.res, !.umsg = umsg,
                                   !.wparam = wparam, !.lparam = lparam, !.env = env,
                                   !.consumed = r.consumed]
    /\ UNCHANGED guiVars

\* the host makes one of its own contexts, or none, current
HostMakeCurrent(ctx) ==
    /\ alive
    /\ ctx # curCtx
    /\ curCtx' = ctx
    /\ last' = NoCall
    /\ UNCHANGED <<State, liveCtx, nCtx, alive, histVars, guiVars>>

(***************************************************************************)
(* Spec: a client drives the library through its public operations.        *)
(***************************************************************************)
\* messages of Spec: <<umsg, wparam, lparam, key state and clipboard>>
SpecMsgs ==
    { <<WM_CHAR, <<0, 97>>, 0, NoEnv>>,                          \* 'a'
      <<WM_KEYDOWN, <<0, 67>>, 0,
        [NoEnv EXCEPT !.keys.ctrl = TRUE]>>,                     \* ctrl + 'C'
      <<WM_MOUSEMOVE, <<0, MK_CONTROL>>, 65541, NoEnv>> }

\* in Spec the UI never captures input
SpecPaintEnvs ==
    { e \in PaintEnvs : ~e.wants.wants_pointer_input /\ ~e.wants.wants_keyboard_input }

\* on_event, with the history of pushed events kept
OnEventSpec ==
    /\ Len(pushed) < MaxPushed
    /\ \E m \in SpecMsgs : CallOnEvent(m[1], m[2], m[3], m[4])
    /\ pushed' = pushed \o Appended(State, State')
    /\ UNCHANGED delivered

\* paint, with the history of delivered events kept
PaintSpec ==
    /\ \E hdc \in HDCs : CallPaint(hdc, SpecPaintEnvs)
    /\ delivered' = IF IsSome(last'.raw_input)
                    THEN delivered \o Unwrap(last'.raw_input).events
                    ELSE delivered
    /\ UNCHANGED pushed

Next ==
    \/ \E hdc \in HDCs : CallInit(hdc, InitEnvs)
    \/ PaintSpec
    \/ CallDestroy
    \/ CallGetScreenSize
    \/ OnEventSpec
    \/ \E ctx \in HostCtxs : HostMakeCurrent(ctx)

Spec == Init /\ [][Next]_vars

(***************************************************************************)
(* SpecPtr, SpecKey, SpecWheel: a client initializes the session, paints   *)
(* (the UI frame decides what input the UI wants) and feeds window         *)
(* messages of one class to on_event.  The platform answers success.       *)
(***************************************************************************)
OkInitEnvs == { e \in InitEnvs : e.create /\ e.mc1 = "ok" /\ e.painter /\ e.mc2 = "ok" }
OkPaintEnvs ==
    { e \in PaintEnvs : e.mc1 = "ok" /\ IsSome(e.rect1) /\ IsSome(e.rect2) /\ e.mc2 = "ok" }

Ctrl == [NoEnv EXCEPT !.keys.ctrl = TRUE]
Clip == Some(<<104, 105>>)            \* the clipboard holds "hi"

PointerCodes ==
    {WM_MOUSEMOVE, WM_LBUTTONDOWN, WM_LBUTTONDBLCLK, WM_LBUTTONUP,
     WM_RBUTTONDOWN, WM_RBUTTONDBLCLK, WM_RBUTTONUP,
     WM_MBUTTONDOWN, WM_MBUTTONDBLCLK, WM_MBUTTONUP}
XButtonCodes == {WM_XBUTTONDOWN, WM_XBUTTONDBLCLK, WM_XBUTTONUP}
WheelCodes == {WM_MOUSEWHEEL, WM_MOUSEHWHEEL}
KeyDownCodes == {WM_KEYDOWN, WM_SYSKEYDOWN}
KeyUpCodes == {WM_KEYUP, WM_SYSKEYUP}

\* messages of SpecPtr: every message code on_event knows, and one it does not
PtrMsgs ==
    { <<u, wp, 65541, NoEnv>> : u \in PointerCodes, wp \in {<<0, 0>>, <<0, 12>>} }
    \cup { <<WM_MOUSEMOVE, <<0, 0>>, -131067, NoEnv>> }
    \cup { <<u, wp, 65541, NoEnv>> : u \in XButtonCodes,
                                     wp \in {<<1, 0>>, <<2, 8>>, <<0, 0>>} }
    \cup { <<u, <<120, 0>>, 0, NoEnv>> : u \in WheelCodes }
    \cup { <<WM_CHAR, wp, 0, NoEnv>> : wp \in {<<0, 97>>, <<0, 8>>, <<0, 55296>>} }
    \cup { <<u, <<0, 65>>, 0, e>> : u \in KeyDownCodes \cup KeyUpCodes, e \in {NoEnv, Ctrl} }
    \cup { <<WM_PAINT, <<0, 0>>, 0, NoEnv>> }

\* messages of SpecKey: C, X, V, A, Backspace and three codes without a key
KeyMsgs ==
    { <<u, <<0, vk>>, 0, [keys |-> [ctrl |-> c, shift |-> FALSE], clipboard |-> Clip]>> :
        u \in KeyDownCodes \cup KeyUpCodes, vk \in {67, 88, 86, 65, 8, 7, 58, 132},
        c \in BOOLEAN }
    \cup { <<u, <<0, 86>>, 0, Ctrl>> : u \in KeyDownCodes \cup KeyUpCodes }
    \cup { <<u, <<0, 65>>, KF_REPEAT, [keys |-> [ctrl |-> FALSE, shift |-> TRUE],
                                       clipboard |-> None]>> :
            u \in KeyDownCodes \cup KeyUpCodes }

\* messages of SpecWheel: the upper word is the wheel rotation, the lower word
\* the MK_* flags
WheelMsgs ==
    { <<u, <<hi, lo>>, 0, NoEnv>> :
        u \in WheelCodes, hi \in {120, 65416, 0, 1, 240, 32768, 65535},
        lo \in {0, MK_SHIFT, MK_CONTROL, 12} }

OnEventOf(msgs) ==
    /\ IsSome(State) => Len(Session.events) < MaxQueue
    /\ \E m \in msgs : CallOnEvent(m[1], m[2], m[3], m[4])
    /\ UNCHANGED histVars

EvInit == CallInit(1, OkInitEnvs)
EvPaint == CallPaint(1, OkPaintEnvs) /\ UNCHANGED histVars

OnEventPtr == OnEventOf(PtrMsgs)
NextPtr == EvInit \/ EvPaint \/ OnEventPtr
SpecPtr == Init /\ [][NextPtr]_vars

OnEventKey == OnEventOf(KeyMsgs)
NextKey == EvInit \/ EvPaint \/ OnEventKey
SpecKey == Init /\ [][NextKey]_vars

OnEventWheel == OnEventOf(WheelMsgs)
NextWheel == EvInit \/ EvPaint \/ OnEventWheel
SpecWheel == Init /\ [][NextWheel]_vars

(***************************************************************************)
(* The example client simple_gui: the Frame Hook (the detour closure of    *)
(* h_wglSwapBuffers), the Window-Procedure Shim (h_wndproc) and Bootstrap  *)
(* (extension_main).  An unwrap() of an error, or unreachable!(), panics:  *)
(* the panic hook set by extension_main blocks the panicking thread and    *)
(* then ends the process.                                                  *)
(***************************************************************************)
Windows == {101, 102}
WindowFromDC(hdc) == 100 + hdc

\* a call of an original function (h_wglSwapBuffers.call, CallWindowProcA)
\* as the model records it: its arguments and what it answered
OrigCall(args, ret) == [args |-> args, ret |-> ret]

HookRet(w, ch, status, sent, inits, paints, orig, ret) ==
    [w |-> w, chan |-> ch, status |-> status, sent |-> sent, inits |-> inits,
     paints |-> paints, orig |-> orig, ret |-> ret]

\* HookPaint returning TRUE instead of what the original answered
HookPaint_returns_true(ch, hdc, sent, inits, p, env) ==
    IF p.res # "Ok"
    THEN HookRet(p.w, ch, "panicked", sent, inits, <<p.res>>, <<>>, 0)
    ELSE HookRet(p.w, ch, "returned", sent, inits, <<p.res>>,
                 <<OrigCall(hdc, env.origRet)>>, 1)

\* paint(hdc, ..).unwrap(); return h_wglSwapBuffers.call(hdc): p is what
\* paint returned
HookPaint(ch, hdc, sent, inits, p, env) ==
    IF p.res # "Ok"
    THEN HookRet(p.w, ch, "panicked", sent, inits, <<p.res>>, <<>>, 0)
    ELSE HookRet(p.w, ch, "returned", sent, inits, <<p.res>>,
                 <<OrigCall(hdc, env.origRet)>>, env.origRet)

\* if !is_init() { sx.send(hdc).unwrap(); init(hdc).unwrap(); }: i is what
\* init returned, ch the channel after the send
HookInit(ch, hdc, i, env) ==
    IF i.res # "Ok"
    THEN HookRet(i.w, ch, "panicked", <<hdc>>, <<i.res>>, <<>>, <<>>, 0)
    ELSE HookPaint(ch, hdc, <<hdc>>, <<i.res>>, paint(i.w, hdc, env.paint), env)

\* the detour closure handing the handle to Bootstrap on every valid call
h_wglSwapBuffers_sends_always(w, ch, hdc, env) ==
    IF hdc = NULL
    THEN HookRet(w, ch, "returned", <<>>, <<>>, <<>>,
                 <<OrigCall(hdc, env.origRet)>>, env.origRet)
    ELSE IF ~is_init(w)
    THEN HookInit(Append(ch, hdc), hdc, init(w, hdc, env.init), env)
    ELSE HookPaint(Append(ch, hdc), hdc, <<hdc>>, <<>>, paint(w, hdc, env.paint), env)

\* the detour closure without its null-handle test
h_wglSwapBuffers_no_null_test(w, ch, hdc, env) ==
    IF ~is_init(w)
    THEN HookInit(Append(ch, hdc), hdc, init(w, hdc, env.init), env)
    ELSE HookPaint(ch, hdc, <<>>, <<>>, paint(w, hdc, env.paint), env)

\* The detour closure installed on wglSwapBuffers.  ch is the channel to
\* Bootstrap; env holds what the platform answers to init and paint and what
\* the original wglSwapBuffers returns.  The result tells what the call did:
\* the handles sent, the results of init and paint, the handles the original
\* was called with, and the value returned.
h_wglSwapBuffers(w, ch, hdc, env) ==
    IF hdc = NULL
    THEN HookRet(w, ch, "returned", <<>>, <<>>, <<>>,
                 <<OrigCall(hdc, env.origRet)>>, env.origRet)
    ELSE IF ~is_init(w)
    THEN HookInit(Append(ch, hdc), hdc, init(w, hdc, env.init), env)
    ELSE HookPaint(ch, hdc, <<>>, <<>>, paint(w, hdc, env.paint), env)

WndRet(w, status, consumed, orig, ret) ==
    [w |-> w, status |-> status, consumed |-> consumed, orig |-> orig, ret |-> ret]

\* if consumed { return LRESULT(1) }; CallWindowProcA(O_WNDPROC.unwrap(), ..):
\* e is what on_event returned (not consumed when there is no session)
WndForward(e, oproc, hwnd, umsg, wparam, lparam, env) ==
    IF e.res # "Ok" THEN WndRet(e.w, "panicked", FALSE, <<>>, 0)
    ELSE IF e.consumed THEN WndRet(e.w, "returned", TRUE, <<>>, 1)
    ELSE IF ~IsSome(oproc) THEN WndRet(e.w, "panicked", FALSE, <<>>, 0)
    ELSE WndRet(e.w, "returned", FALSE,
                <<OrigCall(<<Unwrap(oproc), hwnd, umsg, wparam, lparam>>, env.origRet)>>,
                env.origRet)

\* unsafe extern "system" fn h_wndproc(hwnd, umsg, wparam, lparam) -> LRESULT
\* oproc is the value read from O_WNDPROC; env holds the key state, the
\* clipboard and what the original window procedure returns.
h_wndproc(w, oproc, hwnd, umsg, wparam, lparam, env) ==
    IF is_init(w)
    THEN WndForward(on_event(w, umsg, wparam, lparam, env.ev),
                    oproc, hwnd, umsg, wparam, lparam, env)
    ELSE WndForward([w |-> w, res |-> "Ok", consumed |-> FALSE],
                    oproc, hwnd, umsg, wparam, lparam, env)

\* A panic on the host thread (an unwrap() of an error, unreachable!()) runs
\* the panic hook of extension_main on that thread: it blocks in read_line, the
\* other threads run on
HostPanicked == hook.status = "panicked" \/ wnd.status = "panicked"

\* the panic hook's read_line returned: std::process::exit(1)
ProcessExit ==
    /\ alive /\ HostPanicked
    /\ alive' = FALSE
    /\ last' = NoCall
    /\ UNCHANGED <<libVars, histVars, guiVars>>

\* extension_main up to h_wglSwapBuffers.initialize(..).enable(): from here on
\* the host's presentation calls are intercepted
BootInstallHook ==
    /\ alive /\ bpc.at = "start"
    /\ bpc' = [bpc EXCEPT !.at = "recv"]
    /\ last' = NoCall
    /\ UNCHANGED <<libVars, alive, histVars, chan, hwndProc, O_WNDPROC, hook, wnd>>

\* a receive that does not wait: without a handle it goes on with a null one
BootRecv_no_wait ==
    /\ alive /\ bpc.at = "recv"
    /\ bpc' = [bpc EXCEPT !.at = "set_wndproc",
                          !.hdc = IF chan # <<>> THEN Head(chan) ELSE 1]
    /\ chan' = IF chan # <<>> THEN Tail(chan) ELSE chan
    /\ last' = NoCall
    /\ UNCHANGED <<libVars, alive, histVars, hwndProc, O_WNDPROC, hook, wnd>>

\* let hdc = rx.recv().unwrap(): blocks until a handle has been sent
BootRecv ==
    /\ alive /\ bpc.at = "recv" /\ chan # <<>>
    /\ bpc' = [bpc EXCEPT !.at = "set_wndproc", !.hdc = Head(chan)]
    /\ chan' = Tail(chan)
    /\ last' = NoCall
    /\ UNCHANGED <<libVars, alive, histVars, hwndProc, O_WNDPROC, hook, wnd>>

\* SetWindowLongPtrA(WindowFromDC(hdc), GWLP_WNDPROC, h_wndproc): the window
\* now has the shim as its procedure; the previous one is the return value
BootSetWindowLong ==
    /\ alive /\ bpc.at = "set_wndproc"
    /\ hwndProc' = [hwndProc EXCEPT ![WindowFromDC(bpc.hdc)] = "h_wndproc"]
    /\ bpc' = [bpc EXCEPT !.at = "store", !.prev = hwndProc[WindowFromDC(bpc.hdc)]]
    /\ last' = NoCall
    /\ UNCHANGED <<libVars, alive, histVars, chan, O_WNDPROC, hook, wnd>>

\* O_WNDPROC = Some(..): the returned pointer is stored, extension_main returns
BootStore ==
    /\ alive /\ bpc.at = "store"
    /\ O_WNDPROC' = Some(bpc.prev)
    /\ bpc' = [bpc EXCEPT !.at = "done"]
    /\ last' = NoCall
    /\ UNCHANGED <<libVars, alive, histVars, chan, hwndProc, hook, wnd>>

\* what the platform and the UI answer to a paint of the detour
GuiPaintEnvs ==
    OkPaintEnvs \cup { e \in PaintEnvs : e.mc1 = "ok" /\ ~IsSome(e.rect1) }

\* the state after a call of the detour that did r
HookDone(hdc, r) ==
    /\ SetWorld(r.w)
    /\ chan' = r.chan
    /\ hook' = [n |-> hook.n + 1, hdc |-> hdc, status |-> r.status,
                sent |-> r.sent, inits |-> r.inits, paints |-> r.paints,
                orig |-> r.orig, ret |-> r.ret,
                nValid |-> hook.nValid + (IF hdc # NULL THEN 1 ELSE 0),
                nSent |-> hook.nSent + Len(r.sent),
                nInit |-> hook.nInit + Len(r.inits)]

\* the host calls wglSwapBuffers(hdc) while the detour is enabled
HookCall(hdc) ==
    /\ alive /\ ~HostPanicked /\ bpc.at # "start"
    /\ hook.n < MaxCalls
    /\ \E ie \in (IF is_init(World) THEN OkInitEnvs ELSE InitEnvs),
          pe \in GuiPaintEnvs, ret \in {0, 1} :
         HookDone(hdc, h_wglSwapBuffers(World, chan, hdc,
                                        [init |-> ie, paint |-> pe, origRet |-> ret]))
    /\ last' = NoCall
    /\ UNCHANGED <<alive, histVars, bpc, hwndProc, O_WNDPROC, wnd>>

\* messages of SpecGui: <<umsg, wparam, lparam>>
GuiMsgs ==
    { <<WM_LBUTTONDOWN, <<0, 0>>, 65541>>,
      <<WM_CHAR, <<0, 97>>, 0>>,
      <<WM_XBUTTONDOWN, <<0, 0>>, 65541>>,
      <<WM_PAINT, <<0, 0>>, 0>> }

\* the state after a call of the shim that did r
WndDone(hwnd, m, r) ==
    /\ SetWorld(r.w)
    /\ wnd' = [n |-> wnd.n + 1, status |-> r.status,
               msg |-> <<hwnd, m[1], m[2], m[3]>>, consumed |-> r.consumed,
               orig |-> r.orig, ret |-> r.ret, oproc |-> O_WNDPROC]

\* a message is dispatched to a window whose procedure is the shim
DeliverMsg(hwnd) ==
    /\ alive /\ ~HostPanicked /\ hwndProc[hwnd] = "h_wndproc"
    /\ wnd.n < MaxMsgs
    /\ \E m \in GuiMsgs, ret \in {7, 8} :
         WndDone(hwnd, m, h_wndproc(World, O_WNDPROC, hwnd, m[1], m[2], m[3],
                                    [ev |-> NoEnv, origRet |-> ret]))
    /\ last' = NoCall
    /\ UNCHANGED <<alive, histVars, bpc, chan, hwndProc, O_WNDPROC, hook>>

NextGui ==
    \/ BootInstallHook
    \/ BootRecv
    \/ BootSetWindowLong
    \/ BootStore
    \/ \E hdc \in HDCs \cup {NULL} : HookCall(hdc)
    \/ \E hwnd \in Windows : DeliverMsg(hwnd)
    \/ ProcessExit

SpecGui == Init /\ [][NextGui]_vars

\* Bootstrap is a thread of its own (CreateThread in DllMain): while the
\* process lives, a step of it that stays possible is eventually taken.  The
\* host's calls and the end of the process are under no such obligation.
SpecGuiLive ==
    /\ SpecGui
    /\ WF_vars(BootRecv) /\ WF_vars(BootSetWindowLong) /\ WF_vars(BootStore)

(***************************************************************************)
(* Claims checked under Spec.                                              *)
(***************************************************************************)

\* C1: lifecycle misuse is reported as an error value and changes nothing.
\* destroy, paint, on_event and get_screen_size on an uninitialized session
\* return NotInit and leave it uninitialized; init on an initialized session
\* returns AlreadyInit and leaves the stored session and the current context
\* as they were.
C1_LifecycleMisuse ==
    [][ /\ (last'.op \in {"destroy", "paint", "on_event", "get_screen_size"}
            /\ State = None)
           => (last'.res = "NotInit" /\ State' = None /\ curCtx' = curCtx
               /\ liveCtx' = liveCtx)
        /\ (last'.op = "init" /\ State # None)
           => (last'.res = "AlreadyInit" /\ State' = State /\ curCtx' = curCtx
               /\ liveCtx' = liveCtx)
      ]_vars

\* an init was refused on a session that holds pending events and modifiers
C1_Witness ==
    /\ last.op = "init" /\ last.res = "AlreadyInit"
    /\ IsSome(State) /\ Session.events # <<>> /\ IsSome(Session.modifiers)

\* destroy was refused on an uninitialized session
C1_WitnessNotInit == last.op = "destroy" /\ last.res = "NotInit" /\ State = None

\* C2: every event pushed by on_event appears, in push order, in the raw input
\* of exactly one later paint, and the queue is empty right after that paint,
\* whatever the paints return: the events pushed so far are the events
\* delivered so far followed by the pending queue.
C2_RoundTrip ==
    /\ pushed = delivered \o Pending
    /\ (last.op = "paint" /\ IsSome(last.raw_input)) => Pending = <<>>

\* a paint failed with WindowSize after events were pushed
C2_Witness ==
    /\ last.op = "paint" /\ last.res = "WindowSize"
    /\ pushed # <<>> /\ ~IsSome(last.raw_input)

\* C3: once paint has made the overlay context current, the original context
\* is current again when paint returns, also when the raw input or the client
\* size fails with WindowSize.  (The return where the restoring wglMakeCurrent
\* itself fails, CtxSwitch, is left out of this formula.)
C3_OriginalRestored ==
    (last.op = "paint" /\ last.overlay /\ last.res # "CtxSwitch")
        => curCtx = Session.original_gl_context

\* paint returned WindowSize after having made the overlay context current
C3_Witness == last.op = "paint" /\ last.overlay /\ last.res = "WindowSize"

\* C4: the context that was current when init was entered is current again
\* when init returns: success, CtxCreate and PainterError.  (The CtxSwitch
\* returns, where a wglMakeCurrent itself fails, are left out of this formula.)
C4_InitRestoresContext ==
    [][ (last'.op = "init" /\ last'.res \in {"Ok", "CtxCreate", "PainterError"})
            => curCtx' = curCtx ]_vars

\* init returned PainterError
C4_Witness == last.op = "init" /\ last.res = "PainterError"

(***************************************************************************)
(* Claims checked under SpecPtr, SpecKey and SpecWheel.                    *)
(***************************************************************************)
\* the on_event call that has just returned normally
OnEventReturned == last.op = "on_event" /\ last.res = "Ok"

\* C7: on_event returns consumed = true exactly when the UI wants pointer input
\* and the message is a pointer message (move; down, double-click, up of the
\* primary, secondary, middle, extra1 or extra2 button; either wheel), or the UI
\* wants keyboard input and the message is character input or a key message.
C7_PointerClass == PointerCodes \cup XButtonCodes \cup WheelCodes
C7_KeyboardClass == {WM_CHAR} \cup KeyDownCodes \cup KeyUpCodes
C7_Consumed ==
    OnEventReturned =>
        (last.consumed <=>
            \/ Session.egui_ctx.wants_pointer_input /\ last.umsg \in C7_PointerClass
            \/ Session.egui_ctx.wants_keyboard_input /\ last.umsg \in C7_KeyboardClass)

\* an extra-button message was handled while the UI wanted pointer input
C7_Witness ==
    /\ OnEventReturned /\ last.umsg = WM_XBUTTONDOWN
    /\ Session.egui_ctx.wants_pointer_input
    /\ Len(Session.events) > 0
    /\ Session.events[Len(Session.events)].type = "PointerButton"

\* C8: a key-down or system-key-down message for a mapped key appends, in this
\* order: with control held, copy for C, cut for X, the clipboard text for V
\* (when the clipboard has text); then exactly one key event with pressed =
\* true, that key and the derived modifiers.  Without control, or for another
\* key, only the key event is appended.
C8_Shortcut(key, ctrl, clipboard) ==
    IF ctrl /\ key = 44 THEN <<[type |-> "Copy"]>>
    ELSE IF ctrl /\ key = 65 THEN <<[type |-> "Cut"]>>
    ELSE IF ctrl /\ key = 63 /\ clipboard # <<>> THEN <<[type |-> "Text", text |-> clipboard[1]]>>
    ELSE <<>>

C8_Expected(call) ==
    LET key == Unwrap(get_key(call.wparam))
        mods == [alt |-> call.umsg = WM_SYSKEYDOWN, ctrl |-> call.env.keys.ctrl,
                 shift |-> call.env.keys.shift, mac_cmd |-> FALSE,
                 command |-> call.env.keys.ctrl]
    IN  C8_Shortcut(key, call.env.keys.ctrl, call.env.clipboard)
        \o << [type |-> "Key", pressed |-> TRUE, modifiers |-> mods, key |-> key,
               repeat |-> HasBit(call.lparam, KF_REPEAT), physical_key |-> <<key>>] >>

C8_KeyDownOrder ==
    [][ (last'.op = "on_event" /\ last'.res = "Ok" /\ last'.umsg \in KeyDownCodes
         /\ IsSome(get_key(last'.wparam)))
            => Appended(State, State') = C8_Expected(last') ]_vars

\* ctrl + C was pressed: the queue ends with copy, then the key event
C8_Witness ==
    /\ OnEventReturned /\ last.umsg = WM_KEYDOWN /\ last.wparam = <<0, 67>>
    /\ last.env.keys.ctrl
    /\ Len(Session.events) >= 2
    /\ Session.events[Len(Session.events) - 1].type = "Copy"
    /\ Session.events[Len(Session.events)].type = "Key"

\* ctrl + V was pressed with text on the clipboard
C8_WitnessPaste ==
    /\ OnEventReturned /\ last.umsg = WM_SYSKEYDOWN /\ last.wparam = <<0, 86>>
    /\ last.env.keys.ctrl /\ IsSome(last.env.clipboard)
    /\ Len(Session.events) >= 2
    /\ Session.events[Len(Session.events) - 1].type = "Text"

\* C9: a key-down or key-up message (normal or system-key) whose virtual key
\* code has no logical key in the mapping table appends no event, whatever the
\* control state, and still stores the derived modifiers as the tracked
\* modifiers.
C9_Mapped(vk) ==
    \/ vk \in 48..57 \/ vk \in 65..90 \/ vk \in 96..105 \/ vk \in 112..131
    \/ vk \in {37, 38, 39, 40, 27, 9, 8, 13, 32, 45, 46, 36, 35, 33, 34, 109}

C9_UnmappedKey ==
    [][ (last'.op = "on_event" /\ last'.res = "Ok"
         /\ last'.umsg \in KeyDownCodes \cup KeyUpCodes
         /\ Hi(last'.wparam) = 0 /\ ~C9_Mapped(Lo(last'.wparam)))
            => /\ Appended(State, State') = <<>>
               /\ Unwrap(State').events = Session.events
               /\ Unwrap(State').modifiers =
                     Some(get_key_modifiers(last'.umsg, last'.env.keys)) ]_vars

\* key-down of code 0x07 with control held was handled, and pushed nothing
C9_Witness ==
    /\ OnEventReturned /\ last.umsg = WM_KEYDOWN /\ last.wparam = <<0, 7>>
    /\ last.env.keys.ctrl
    /\ Session.events = <<>>
    /\ IsSome(Session.modifiers) /\ Unwrap(Session.modifiers).ctrl

\* C10: every wheel message appends exactly one event.  With v the upper 16
\* bits of the first parameter as a signed 16-bit integer: control bit clear,
\* a scroll of v*10/120 on the vertical (WM_MOUSEWHEEL) or horizontal
\* (WM_MOUSEHWHEEL) axis and 0 on the other; control bit set, a zoom by 1.5 if
\* v > 0 and by 0.5 otherwise.
C10_V(wparam) == IF wparam[1] >= 32768 THEN wparam[1] - 65536 ELSE wparam[1]
C10_IsRatio(f, n, d) == f[2] > 0 /\ f[1] * d = n * f[2]
C10_Control(wparam) == (wparam[2] \div 8) % 2 = 1

C10_Event(call, ev) ==
    LET v == C10_V(call.wparam) IN
    IF C10_Control(call.wparam)
    THEN /\ ev.type = "Zoom"
         /\ IF v > 0 THEN C10_IsRatio(ev.factor, 3, 2) ELSE C10_IsRatio(ev.factor, 1, 2)
    ELSE /\ ev.type = "Scroll"
         /\ IF call.umsg = WM_MOUSEWHEEL
            THEN C10_IsRatio(ev.delta[1], 0, 1) /\ C10_IsRatio(ev.delta[2], v * 10, 120)
            ELSE C10_IsRatio(ev.delta[1], v * 10, 120) /\ C10_IsRatio(ev.delta[2], 0, 1)

C10_Wheel ==
    [][ (last'.op = "on_event" /\ last'.res = "Ok" /\ last'.umsg \in WheelCodes)
            => /\ Len(Appended(State, State')) = 1
               /\ C10_Event(last', Appended(State, State')[1]) ]_vars

\* one notch of the vertical wheel scrolled by 10
C10_Witness ==
    /\ OnEventReturned /\ last.umsg = WM_MOUSEWHEEL /\ last.wparam = <<120, 0>>
    /\ Len(Session.events) = 1
    /\ Session.events[1] = [type |-> "Scroll", delta |-> <<<<0, 1>>, <<10, 1>>>>]

\* a backward notch with control held zoomed by 0.5
C10_WitnessZoom ==
    /\ OnEventReturned /\ last.umsg = WM_MOUSEHWHEEL /\ last.wparam = <<65416, MK_CONTROL>>
    /\ Len(Session.events) = 1
    /\ Session.events[1] = [type |-> "Zoom", factor |-> <<1, 2>>]

(***************************************************************************)
(* Claims checked under SpecGui.                                           *)
(***************************************************************************)
\* every result init and paint gave during the last intercepted call
HookResults == hook.inits \o hook.paints

\* C5, as stated: on every intercepted presentation call, whatever init and
\* paint do, the original presentation function is invoked exactly once with
\* the same handle, and the intercept returns the original's return value.
C5_AlwaysCallsOriginal ==
    hook.status # "none" =>
        /\ Len(hook.orig) = 1
        /\ hook.orig[1].args = hook.hdc
        /\ hook.ret = hook.orig[1].ret

\* C5, amended: an intercepted presentation call in which init (when it is
\* invoked) and paint succeed invokes the original presentation function
\* exactly once, with the same handle, and returns the original's return
\* value; a call in which init or paint returns an error panics on the unwrap,
\* never returns, and does not invoke the original.  A call with a null handle
\* only invokes the original.
C5_CallsOriginalUnlessError ==
    /\ hook.status = "returned" =>
          /\ \A k \in 1..Len(HookResults) : HookResults[k] = "Ok"
          /\ Len(hook.orig) = 1
          /\ hook.orig[1].args = hook.hdc
          /\ hook.ret = hook.orig[1].ret
    /\ hook.status = "panicked" =>
          /\ HookResults # <<>>
          /\ HookResults[Len(HookResults)] # "Ok"
          /\ hook.orig = <<>>

\* a first intercepted call ran init and paint and returned the original's 0
C5_Witness ==
    /\ hook.status = "returned" /\ hook.hdc # NULL
    /\ hook.inits = <<"Ok">> /\ hook.paints = <<"Ok">>
    /\ hook.orig = <<OrigCall(hook.hdc, 0)>>

\* an intercepted call whose paint failed ended in the panic
C5_WitnessPanic ==
    hook.status = "panicked" /\ hook.inits = <<>> /\ hook.paints = <<"WindowSize">>

\* the message of the last shim call is an extra-button message that names
\* neither extra button (on_event's unreachable!())
WndNoButton == wnd.msg[2] \in XButtonCodes /\ ~IsSome(xbutton(wnd.msg[3]))

\* C6: for each message the shim does exactly one of two things: if a session
\* is initialised and on_event reports the message consumed it returns 1
\* without calling the original window procedure; otherwise it calls the
\* original window procedure exactly once with the unmodified window handle,
\* message code and both parameters, and returns its result.  (Messages that
\* name no extra button are left out of this formula.)
C6_ShimExactlyOne ==
    (wnd.status # "none" /\ ~WndNoButton) =>
        \/ /\ wnd.consumed
           /\ wnd.ret = 1
           /\ wnd.orig = <<>>
        \/ /\ ~wnd.consumed
           /\ Len(wnd.orig) = 1
           /\ wnd.orig[1].args = <<"host">> \o wnd.msg
           /\ wnd.ret = wnd.orig[1].ret

\* the shim forwarded a message to the original window procedure
C6_Witness ==
    wnd.status = "returned" /\ ~wnd.consumed /\ Len(wnd.orig) = 1

\* the shim consumed a message
C6_WitnessConsumed ==
    wnd.status = "returned" /\ wnd.consumed

\* the last event of the queue (the key event a key arm has just pushed)
LastEvent == Session.events[Len(Session.events)]

\* the call that has just returned handled a key message with a mapped key
KeyEventPushed ==
    /\ OnEventReturned /\ last.umsg \in KeyDownCodes \cup KeyUpCodes
    /\ Session.events # <<>> /\ LastEvent.type = "Key"

\* C11: for every key message the derived modifiers have alt = true exactly
\* when the message is a system-key message, for key-up as for key-down:
\* WM_SYSKEYDOWN and WM_SYSKEYUP give alt, WM_KEYDOWN and WM_KEYUP do not; the
\* derived value is what is stored as the tracked modifiers and what the key
\* event carries.
C11_AltIffSystemKey ==
    (OnEventReturned /\ last.umsg \in KeyDownCodes \cup KeyUpCodes) =>
        /\ IsSome(Session.modifiers)
        /\ Unwrap(Session.modifiers).alt = (last.umsg \in {WM_SYSKEYDOWN, WM_SYSKEYUP})
        /\ KeyEventPushed => LastEvent.modifiers = Unwrap(Session.modifiers)

\* a system-key up of 'A' was handled and pushed its key event
C11_Witness ==
    /\ KeyEventPushed /\ last.umsg = WM_SYSKEYUP
    /\ ~LastEvent.pressed /\ LastEvent.modifiers = Unwrap(Session.modifiers)

\* the modifiers a pointer message's first parameter encodes: control and
\* shift from the MK_CONTROL and MK_SHIFT bits, no alt
C12_Decoded(wparam) ==
    [alt |-> FALSE, ctrl |-> (Lo(wparam) \div 8) % 2 = 1,
     shift |-> (Lo(wparam) \div 4) % 2 = 1, mac_cmd |-> FALSE,
     command |-> (Lo(wparam) \div 8) % 2 = 1]

\* the call that has just returned handled a pointer-move, pointer-button or
\* wheel message
C12_PointerReturned ==
    /\ OnEventReturned
    /\ last.umsg \in PointerCodes \cup XButtonCodes \cup WheelCodes

\* C12, as stated: after on_event handles a pointer-move, pointer-button or
\* wheel message on an initialised session, the tracked modifiers equal the
\* modifiers decoded from the message's first parameter, in every session
\* state, also when no key message has been handled since init.
C12_MouseSetsModifiers ==
    C12_PointerReturned => Session.modifiers = Some(C12_Decoded(last.wparam))

\* C12, amended: when on_event handles a pointer-move, pointer-button or wheel
\* message on a session whose tracked modifiers are present (a key message has
\* been handled since init), the tracked modifiers become the modifiers decoded
\* from the message's first parameter; when they are absent they stay absent.
\* A paint's raw-input snapshot carries the tracked modifiers, or the default
\* (no modifiers) while they are absent.
C12_MouseUpdatesPresentModifiers ==
    [][ /\ (last'.op = "on_event" /\ last'.res = "Ok"
            /\ last'.umsg \in PointerCodes \cup XButtonCodes \cup WheelCodes)
          => Unwrap(State').modifiers =
               IF IsSome(Session.modifiers) THEN Some(C12_Decoded(last'.wparam))
               ELSE None
        /\ (last'.op = "paint" /\ IsSome(last'.raw_input))
          => Unwrap(last'.raw_input).modifiers =
               IF IsSome(Session.modifiers) THEN Unwrap(Session.modifiers)
               ELSE [alt |-> FALSE, ctrl |-> FALSE, shift |-> FALSE,
                     mac_cmd |-> FALSE, command |-> FALSE] ]_vars

\* a pointer message with the control and shift bits was handled after a key
\* message, and the tracked modifiers are the decoded ones
C12_Witness ==
    /\ C12_PointerReturned /\ Lo(last.wparam) = 12
    /\ Session.modifiers = Some(C12_Decoded(last.wparam))
    /\ Unwrap(Session.modifiers).ctrl /\ Unwrap(Session.modifiers).shift

\* C13: the tracked modifiers are absent in the session init stores and stay
\* absent through paints and non-key messages (pointer, wheel, character,
\* unknown codes); they become present only in a call of on_event that handles
\* a key-down, key-up, system-key-down or system-key-up message.  While they
\* are absent a paint's raw-input snapshot carries the default modifiers.
C13_NoneUntilKey ==
    [][ /\ (~IsSome(State) /\ IsSome(State')) => ~IsSome(Unwrap(State').modifiers)
        /\ (IsSome(State) /\ IsSome(State')
            /\ ~IsSome(Session.modifiers) /\ IsSome(Unwrap(State').modifiers))
          => /\ last'.op = "on_event"
             /\ last'.umsg \in {WM_KEYDOWN, WM_KEYUP, WM_SYSKEYDOWN, WM_SYSKEYUP}
        /\ (IsSome(State) /\ ~IsSome(Session.modifiers)
            /\ last'.op = "paint" /\ IsSome(last'.raw_input))
          => /\ ~Unwrap(last'.raw_input).modifiers.alt
             /\ ~Unwrap(last'.raw_input).modifiers.ctrl
             /\ ~Unwrap(last'.raw_input).modifiers.shift
             /\ ~Unwrap(last'.raw_input).modifiers.mac_cmd
             /\ ~Unwrap(last'.raw_input).modifiers.command ]_vars

\* a paint handed over a pointer event that carried the control bit while the
\* tracked modifiers were still absent
C13_Witness ==
    /\ last.op = "paint" /\ IsSome(last.raw_input)
    /\ ~IsSome(Session.modifiers)
    /\ \E k \in 1..Len(Unwrap(last.raw_input).events) :
          /\ Unwrap(last.raw_input).events[k].type = "PointerButton"
          /\ Unwrap(last.raw_input).events[k].modifiers.ctrl
    /\ ~Unwrap(last.raw_input).modifiers.ctrl

(***************************************************************************)
(* Claims about destroy, checked under Spec.                               *)
(***************************************************************************)
\* C14: the painter's graphics objects are released only while the overlay
\* context is current: at the moment destroy releases the painter, the overlay
\* context still exists and is the current context.
C14_ReleasedInOverlay ==
    (last.op = "destroy" /\ IsSome(last.release)) =>
        /\ Unwrap(last.release).overlay_live
        /\ Unwrap(last.release).cur = Session.new_gl_context

\* destroy released the painter of an initialised session
C14_Witness ==
    /\ last.op = "destroy" /\ last.res = "Ok" /\ IsSome(last.release)
    /\ Session.painter.destroyed

\* C15: destroy on an initialised session returns success and does not clear
\* the stored session: the session is still there afterwards (is_init() is
\* true), with the same target surface, event queue and tracked modifiers; a
\* following init fails with AlreadyInit and a second destroy succeeds rather
\* than failing with NotInit.
C15_DestroyKeepsSession ==
    [][ /\ (last'.op = "destroy" /\ IsSome(State))
          => /\ last'.res = "Ok"
             /\ IsSome(State')
             /\ Unwrap(State').window_handle = Session.window_handle
             /\ Unwrap(State').events = Session.events
             /\ Unwrap(State').modifiers = Session.modifiers
        /\ (IsSome(State) /\ Session.painter.destroyed /\ last'.op = "init")
          => last'.res = "AlreadyInit" /\ State' = State
        /\ (IsSome(State) /\ Session.painter.destroyed /\ last'.op = "destroy")
          => last'.res = "Ok" ]_vars

\* a second destroy succeeded on a session with a pending event and tracked
\* modifiers
C15_Witness ==
    /\ last.op = "destroy" /\ last.res = "Ok" /\ ~IsSome(last.release)
    /\ Session.events # <<>> /\ IsSome(Session.modifiers)

\* init was refused on a destroyed session
C15_WitnessInit ==
    last.op = "init" /\ last.res = "AlreadyInit" /\ Session.painter.destroyed

(***************************************************************************)
(* Claims about the Frame Hook and Bootstrap, checked under SpecGui.       *)
(***************************************************************************)
\* C16: an intercepted presentation call with a null handle passes straight
\* through: it calls the original presentation function with that handle and
\* returns its result; it sends no handle to Bootstrap, does not call init or
\* paint, and leaves the session, the pending events and the GL contexts
\* unchanged.
C16_NullPassthrough ==
    [][ (hook'.n = hook.n + 1 /\ hook'.hdc = NULL)
          => /\ hook'.status = "returned"
             /\ Len(hook'.orig) = 1
             /\ hook'.orig[1].args = NULL
             /\ hook'.ret = hook'.orig[1].ret
             /\ hook'.sent = <<>> /\ chan' = chan
             /\ hook'.inits = <<>> /\ hook'.paints = <<>>
             /\ State' = State
             /\ curCtx' = curCtx /\ liveCtx' = liveCtx ]_vars

\* a null-handle call returned the original's 1 while a session with a pending
\* event exists
C16_Witness ==
    /\ hook.status = "returned" /\ hook.hdc = NULL /\ hook.ret = 1
    /\ hook.orig = <<OrigCall(NULL, 1)>>
    /\ IsSome(State) /\ Session.events # <<>>

\* the step is an intercepted call with a valid (non-null) handle
ValidCallStep == hook'.n = hook.n + 1 /\ hook'.hdc # NULL

\* C17, as stated: over any sequence of intercepted calls the handle is handed
\* to Bootstrap exactly once and init is invoked exactly once, both on the
\* first call with a valid handle; every valid call, the first included,
\* invokes paint on an initialised session (paint never returns NotInit).
C17_OnceAndAlwaysPaints ==
    /\ hook.nValid = 0 => (hook.nSent = 0 /\ hook.nInit = 0)
    /\ hook.nValid >= 1 => (hook.nSent = 1 /\ hook.nInit = 1)
    /\ (hook.status # "none" /\ hook.hdc # NULL)
          => Len(hook.paints) = 1 /\ hook.paints[1] # "NotInit"

\* C17, amended: over any sequence of intercepted calls the handle is handed
\* to Bootstrap exactly once and init is invoked exactly once, both on the
\* first call with a valid handle, the handoff before init (the handle has
\* been sent also when init fails).  Every valid call whose init (if invoked)
\* succeeds invokes paint once, on the initialised session (paint never returns
\* NotInit), and calls the original only after paint has succeeded; a first
\* valid call whose init fails panics and invokes neither paint nor the
\* original.
C17_HandoffAndInitOnce ==
    [][ /\ hook'.nValid = 0 => (hook'.nSent = 0 /\ hook'.nInit = 0)
        /\ hook'.nValid >= 1 => (hook'.nSent = 1 /\ hook'.nInit = 1)
        /\ ValidCallStep =>
             /\ (hook.nValid = 0) <=> (hook'.sent = <<hook'.hdc>>)
             /\ (hook.nValid = 0) <=> (Len(hook'.inits) = 1)
             /\ (hook.nValid # 0) => (hook'.sent = <<>> /\ hook'.inits = <<>>)
             /\ hook'.sent # <<>> => chan' = Append(chan, hook'.hdc)
             /\ IF hook'.inits # <<>> /\ hook'.inits[1] # "Ok"
                THEN /\ hook'.paints = <<>> /\ hook'.orig = <<>>
                     /\ hook'.status = "panicked" /\ ~IsSome(State')
                ELSE /\ Len(hook'.paints) = 1 /\ hook'.paints[1] # "NotInit"
                     /\ IsSome(State')
                     /\ hook'.orig # <<>> => hook'.paints = <<"Ok">> ]_vars

\* a third valid call painted and called the original, one handle sent and
\* one init over all calls
C17_Witness ==
    /\ hook.nValid = 3 /\ hook.nSent = 1 /\ hook.nInit = 1
    /\ hook.status = "returned" /\ hook.sent = <<>> /\ hook.inits = <<>>
    /\ hook.paints = <<"Ok">> /\ Len(hook.orig) = 1

\* the first valid call sent the handle and panicked on init's error
C17_WitnessInitFails ==
    /\ hook.nValid = 1 /\ hook.sent = <<hook.hdc>> /\ chan = <<hook.hdc>>
    /\ Len(hook.inits) = 1 /\ hook.inits[1] # "Ok" /\ hook.status = "panicked"

(***************************************************************************)
(* Claims about paint's contexts, checked under Spec.                      *)
(***************************************************************************)
\* C18: when paint returns success, the current context is the one that was
\* current when that paint was entered, also when the host has made another
\* context current since the original context was captured while presenting to
\* the same surface; the stored original context is re-captured from the
\* current context exactly when paint's target handle differs from the stored
\* one, and is left unchanged otherwise.  (Stated for paints entered with one
\* of the host's contexts current.)
C18_PaintRestoresEntryContext ==
    [][ (last'.op = "paint" /\ last'.res = "Ok" /\ curCtx \in HostCtxs)
          => /\ curCtx' = curCtx
             /\ Unwrap(State').original_gl_context =
                  IF Unwrap(State').window_handle # Session.window_handle
                  THEN curCtx ELSE Session.original_gl_context ]_vars

\* a successful paint against another surface re-captured the context the host
\* had switched to, and left it current
C18_Witness ==
    /\ last.op = "paint" /\ last.res = "Ok"
    /\ Session.window_handle = 2 /\ Session.original_gl_context = 12
    /\ curCtx = 12

\* C19: in every interleaving of Bootstrap with the messages delivered on the
\* host thread, the previous window-procedure pointer is already stored
\* whenever the shim has to forward a message: no message reaches the shim
\* between SetWindowLongPtrA and the store into O_WNDPROC, and the shim never
\* forwards through an unset pointer.
C19_PointerStoredBeforeForward ==
    (wnd.status # "none" /\ ~wnd.consumed /\ ~WndNoButton) =>
        /\ IsSome(wnd.oproc)
        /\ wnd.status = "returned"

\* a message was delivered to the shim while Bootstrap stood between
\* SetWindowLongPtrA and the store
C19_Witness ==
    /\ bpc.at = "store" /\ wnd.n = 1
    /\ hwndProc[wnd.msg[1]] = "h_wndproc" /\ ~IsSome(O_WNDPROC)

\* the windows whose procedure is the shim
Shimmed == { hwnd \in Windows : hwndProc[hwnd] = "h_wndproc" }

\* the part of C20 that holds in every state: the shim is installed on no
\* window before SetWindowLongPtrA and on one window after it; Bootstrap gets
\* past its receive only with the non-null handle the hook sent, and installs
\* the shim on the window owning that handle; without a valid presentation
\* call Bootstrap has not got past its receive
C20_Installed ==
    /\ bpc.at \in {"start", "recv", "set_wndproc"} => Shimmed = {}
    /\ bpc.at \in {"store", "done"} => Shimmed = {WindowFromDC(bpc.hdc)}
    /\ bpc.at \in {"set_wndproc", "store", "done"}
          => /\ hook.nSent = 1 /\ hook.nValid >= 1
             /\ bpc.hdc # NULL /\ bpc.hdc \in HDCs
    /\ hook.nValid = 0 => bpc.at \in {"start", "recv"}

\* the part of C20 about steps: the window procedure changes only in
\* Bootstrap's SetWindowLongPtrA step, which is taken at most once; a call
\* that hands the handle over completes in the same step, Bootstrap not moving
C20_Steps ==
    [][ /\ hwndProc' # hwndProc
          => /\ bpc.at = "set_wndproc" /\ bpc'.at = "store"
             /\ Shimmed = {}
        /\ (hook'.n = hook.n + 1 /\ hook'.sent # <<>>)
          => /\ chan' = Append(chan, hook'.hdc)
             /\ bpc' = bpc
             /\ hook'.status \in {"returned", "panicked"} ]_vars

\* C20, as stated: Bootstrap installs the shim at most once, only after the
\* hook has handed over a valid handle, on the window owning that handle; if
\* the host makes a presentation call with a valid handle, Bootstrap
\* eventually installs the shim and runs to completion; without a valid call
\* it stays blocked and never installs it; the handoff does not block the call.
C20_BootstrapCompletes ==
    /\ []C20_Installed
    /\ C20_Steps
    /\ (hook.nValid >= 1) ~> (bpc.at = "done")

\* C20, amended: as stated, except that Bootstrap is only bound to install the
\* shim and to run to completion while the process lives: a panic in the hook
\* or the shim ends the process, and Bootstrap with it.
C20_BootstrapCompletesWhileAlive ==
    /\ []C20_Installed
    /\ C20_Steps
    /\ (hook.nValid >= 1) ~> (bpc.at = "done" \/ ~alive)

\* Bootstrap has run to completion with the shim on the window of handle 2
C20_Witness ==
    /\ bpc.at = "done" /\ bpc.hdc = 2
    /\ Shimmed = {102} /\ O_WNDPROC = Some("host")
    /\ hook.nSent = 1 /\ chan = <<>>

(***************************************************************************)
(* Claims about init's errors, checked under Spec.                         *)
(***************************************************************************)
\* C21: an init that returns an error (CtxCreate, CtxSwitch, PainterError)
\* stores no session: is_init() is false afterwards, so paint, on_event, destroy
\* and get_screen_size still return NotInit and a later init is not rejected
\* with AlreadyInit.  A session is stored only by an init that returns success,
\* and then with an empty event queue, absent tracked modifiers and the given
\* target surface.
C21_InitErrorStoresNothing ==
    [][ /\ (last'.op = "init" /\ last'.res \in {"CtxCreate", "CtxSwitch", "PainterError"})
          => ~IsSome(State) /\ ~IsSome(State')
        /\ (~IsSome(State) /\ IsSome(State'))
          => /\ last'.op = "init" /\ last'.res = "Ok"
             /\ Unwrap(State').events = <<>>
             /\ Unwrap(State').modifiers = None
             /\ Unwrap(State').window_handle = last'.hdc
        /\ (last'.op = "init" /\ last'.res = "Ok") => (~IsSome(State) /\ IsSome(State'))
        /\ (~IsSome(State) /\ last'.op \in {"paint", "on_event", "destroy", "get_screen_size"})
          => last'.res = "NotInit" /\ ~IsSome(State')
        /\ (~IsSome(State) /\ last'.op = "init") => last'.res # "AlreadyInit" ]_vars

\* paint returned NotInit after an init that had created its context and then
\* failed
C21_Witness ==
    /\ last.op = "paint" /\ last.res = "NotInit"
    /\ ~IsSome(State) /\ nCtx = 1

\* an init failed with PainterError and stored nothing
C21_WitnessPainterError ==
    last.op = "init" /\ last.res = "PainterError" /\ ~IsSome(State)
====
